---- MODULE Spec2Model ----
(***************************************************************************)
(* A model of the morphological-classification tool:                       *)
(*   - app/pages/2_classification_page.py: the Streamlit page.  One page   *)
(*     run is one top-to-bottom execution of the script, started by a user *)
(*     event (file chosen, file cleared, selectbox changed, button         *)
(*     pressed, any other rerun).  Session state, the uploader's file, the *)
(*     st.cache_data cache of convert_df and the geodatabase on disk       *)
(*     outlive a run; the messages of a run do not.                        *)
(*   - app/config_parser.py: read_config                                   *)
(*   - app/plot_funcs.py: the flexibility table and the VIF aggregation    *)
(***************************************************************************)
EXTENDS Integers, Sequences, FiniteSets, TLC

VARIABLES
    \* ---- the classification page
    session,        \* st.session_state: the four tables and urban_types
    uploaded_zip,   \* the file held by st.sidebar.file_uploader (NoZip: None)
    clusters_num,   \* the selectbox's value
    csv_cache,      \* st.cache_data's entry for convert_df
    button,         \* the button whose press started the last run
    msgs,           \* the messages the last run showed
    missing_report, \* the file names in the last run's "Missing files" error
    rec_list,       \* the counts the last run recommended
    raised,         \* the blocks in which a call raised during the last run
    crashed,        \* the last run ended with an exception nobody caught
    gdb_called,     \* the last run called dataframe_to_gdb
    gdb_written,    \* what the last run wrote to the geodatabase layer
    csv_offered,    \* what the last run handed to save_csv
    rendered,       \* the buttons the last run put on the page
    \* ---- read_config
    cfg_file, params,
    \* ---- plot_flexibility_scores_table
    flex_results, flex_table, flex_overall,
    \* ---- plot_overall_vif
    vif_results, vif_mean,
    \* ---- convert_df / pd.read_csv
    df, csv_text, reloaded,
    \* ---- save_flexibility_scores_to_csv
    save_results,   \* the results passed
    flexibility_df, \* the rows written to the CSV file
    \* ---- plot_outliers / streamlit_plot_outliers
    out_results,    \* the results mapping the caller holds
    plotted         \* the plotting functions called on it so far

pageVars == <<session, uploaded_zip, clusters_num, csv_cache, button, msgs,
              missing_report, rec_list, raised, crashed, gdb_called, gdb_written,
              csv_offered, rendered>>
cfgVars == <<cfg_file, params>>
flexVars == <<flex_results, flex_table, flex_overall>>
vifVars == <<vif_results, vif_mean>>
csvVars == <<df, csv_text, reloaded>>
saveVars == <<save_results, flexibility_df>>
outVars == <<out_results, plotted>>
vars == <<pageVars, cfgVars, flexVars, vifVars, csvVars, saveVars, outVars>>

----------------------------------------------------------------------------
\* Bounds of the model

\* distinct data sets (the tables of a ZIP are named by the data set's number)
NumZips == 2
\* the largest number of counts in one recommendation
MaxRecs == 2

----------------------------------------------------------------------------
\* The classification page

\* line 49
expected_files ==
    <<"merged.csv", "metrics_with_percentiles.csv", "standardized.csv", "buildings.csv">>

Files == {expected_files[i] : i \in 1..Len(expected_files)}

\* best_davies_bouldin_score(..., min_clusters=1, max_clusters=15, ...)
min_clusters == 1
max_clusters == 15

\* st.selectbox(options=range(2, 21), index=5)
SelectFirst == 2
SelectLast == 20
SelectIndex == 5
DefaultClusters == SelectFirst + SelectIndex

\* the selectbox values the model tries: the default and the last
ClusterChoices == {DefaultClusters, SelectLast}

\* uploaded_zip is None
NoZip == [id |-> 0, valid |-> FALSE, names |-> {}, unreadable |-> "none"]

\* the member lists of the incomplete archives the model tries: one expected
\* file missing, two missing, all missing
Incomplete ==
    {Files \ {f} : f \in Files}
    \cup {{"merged.csv", "metrics_with_percentiles.csv"}, {}}

\* the members of a complete archive that pd.read_csv may reject in the model:
\* the first and the last one read
Unreadable == {expected_files[1], expected_files[Len(expected_files)]}

\* The files a user may choose: one that is no ZIP archive; an archive lacking
\* some expected member; a complete archive one of whose members pd.read_csv
\* rejects; a complete archive of data set i, all of whose members parse.
\* (The first three store nothing, so the model gives them data set 1.)
Zips ==
    {[id |-> 1, valid |-> FALSE, names |-> {}, unreadable |-> "none"]}
    \cup {[id |-> 1, valid |-> TRUE, names |-> n, unreadable |-> "none"] :
             n \in Incomplete}
    \cup {[id |-> 1, valid |-> TRUE, names |-> Files, unreadable |-> u] :
             u \in Unreadable}
    \cup {[id |-> i, valid |-> TRUE, names |-> Files, unreadable |-> "none"] :
             i \in 1..NumZips}

\* 'urban_types' not in st.session_state
NoUrban == [present |-> FALSE, merged |-> 0, buildings |-> 0, standardized |-> 0,
            k |-> 0]

\* a fresh st.session_state (0: the key is absent)
EmptySession == [merged |-> 0, metrics_with_percentiles |-> 0, standardized |-> 0,
                 buildings |-> 0, urban_types |-> NoUrban]

Msg(src, kind) == [src |-> src, kind |-> kind]

\* lines 30-39: the sidebar's banner, from the session as the run finds it
Banner(s) ==
    IF s.merged # 0 /\ s.standardized # 0 /\ s.metrics_with_percentiles # 0
       /\ s.buildings # 0
    THEN {Msg("banner", "success")}
    ELSE {Msg("banner", "warning")}

\* line 53, a faulty variant: every expected name is listed once one is missing
MissingFilesAll(names) ==
    IF \E i \in 1..Len(expected_files) : expected_files[i] \notin names
    THEN expected_files ELSE <<>>

\* line 53: [file for file in expected_files if file not in zip_file_names]
MissingFiles(names) ==
    LET absent(f) == f \notin names IN SelectSeq(expected_files, absent)

\* lines 59-68, a faulty variant: each table is stored as soon as it is read,
\* so a member that pd.read_csv rejects leaves the ones read before it stored
UploadBlockStoreAsRead(s, zip) ==
    LET same == [session |-> s, msgs |-> {}, missing |-> <<>>, raised |-> {}] IN
    IF zip = NoZip THEN same
    ELSE IF ~zip.valid
    THEN [same EXCEPT !.msgs = {Msg("upload", "error")}, !.raised = {"upload"}]
    ELSE LET missing_files == MissingFiles(zip.names) IN
         IF missing_files # <<>>
         THEN [same EXCEPT !.msgs = {Msg("upload", "missing")}, !.missing = missing_files]
         ELSE IF zip.unreadable = expected_files[1]
         THEN [same EXCEPT !.msgs = {Msg("upload", "error")}, !.raised = {"upload"}]
         ELSE IF zip.unreadable # "none"
         THEN [same EXCEPT
                  !.session = [s EXCEPT !.merged = zip.id,
                                        !.metrics_with_percentiles = zip.id,
                                        !.standardized = zip.id],
                  !.msgs = {Msg("upload", "error")}, !.raised = {"upload"}]
         ELSE [same EXCEPT
                  !.session = [s EXCEPT !.merged = zip.id,
                                        !.metrics_with_percentiles = zip.id,
                                        !.standardized = zip.id,
                                        !.buildings = zip.id],
                  !.msgs = {Msg("upload", "success")}]

\* lines 44-74
UploadBlock(s, zip) ==
    LET same == [session |-> s, msgs |-> {}, missing |-> <<>>, raised |-> {}] IN
    IF zip = NoZip THEN same
    ELSE IF ~zip.valid
    THEN \* zipfile.ZipFile raises; line 73 catches
         [same EXCEPT !.msgs = {Msg("upload", "error")}, !.raised = {"upload"}]
    ELSE LET missing_files == MissingFiles(zip.names) IN
         IF missing_files # <<>>
         THEN [same EXCEPT !.msgs = {Msg("upload", "missing")}, !.missing = missing_files]
         ELSE IF zip.unreadable # "none"
         THEN \* one of the four pd.read_csv calls raises, before any store
              [same EXCEPT !.msgs = {Msg("upload", "error")}, !.raised = {"upload"}]
         ELSE [same EXCEPT
                  !.session = [s EXCEPT !.merged = zip.id,
                                        !.metrics_with_percentiles = zip.id,
                                        !.standardized = zip.id,
                                        !.buildings = zip.id],
                  !.msgs = {Msg("upload", "success")}]


\* the candidate counts of lo..hi the model lets a recommendation hold: the
\* ends of the range and the selectbox's default
Candidates(lo, hi) == {c \in {lo, DefaultClusters, hi} : lo <= c /\ c <= hi}

\* generate_clusters.best_davies_bouldin_score(lo, hi): the results it may
\* return, whatever the data: some of the candidate counts lo..hi, those that
\* minimise the Davies-Bouldin score in some repeat
best_davies_bouldin_score(lo, hi) ==
    {S \in SUBSET Candidates(lo, hi) : S # {} /\ Cardinality(S) <= MaxRecs}

\* lines 84-86, a faulty variant: the selectbox's last option as max_clusters
RecommendableSelect ==
    best_davies_bouldin_score(min_clusters, SelectLast)

\* lines 84-86: the call with min_clusters=1, max_clusters=15
Recommendable ==
    best_davies_bouldin_score(min_clusters, max_clusters)

\* how a call of the recommend block may end: both calls return, the first
\* raises, or plot_num_of_clusters raises after the recommendation is shown
RecOutcomes == {"ok", "raise", "raise_plot"}

\* lines 82-92
RecommendBlock(s, btn, out, recs) ==
    LET idle == [msgs |-> {}, rec_list |-> {}, raised |-> {}, crashed |-> FALSE]
        shown == [idle EXCEPT !.msgs = {Msg("recommend", "info")}, !.rec_list = recs]
    IN
    IF btn # "recommend" THEN idle
    ELSE IF s.standardized = 0 THEN idle      \* line 83 has no else branch
    ELSE IF out = "raise"
    THEN [idle EXCEPT !.raised = {"recommend"}, !.crashed = TRUE]
    ELSE IF out = "raise_plot"
    THEN [shown EXCEPT !.raised = {"recommend"}, !.crashed = TRUE]
    ELSE shown

\* how a call of the classify block may end: both calls return, add_cluster_col
\* raises, or plot_clusters_st raises after the labels are stored
ClsOutcomes == {"ok", "raise", "raise_plot"}

\* generate_clusters.add_cluster_col(merged, buildings, standardized, k): the
\* labelled table, named by what it was computed from
add_cluster_col(merged, buildings, standardized, k) ==
    [present |-> TRUE, merged |-> merged, buildings |-> buildings,
     standardized |-> standardized, k |-> k]

\* lines 96-110, a faulty variant: line 106 stores the labels only when the
\* session has none yet
ClassifyBlockKeepFirst(s, k, btn, out) ==
    LET idle == [session |-> s, msgs |-> {}, raised |-> {}, crashed |-> FALSE]
        urban_types == add_cluster_col(s.merged, s.buildings, s.standardized, k)
        stored == IF s.urban_types.present THEN idle
                  ELSE [idle EXCEPT !.session = [s EXCEPT !.urban_types = urban_types]]
    IN
    IF btn # "classify" THEN idle
    ELSE IF s.merged # 0 /\ s.standardized # 0 /\ s.metrics_with_percentiles # 0
            /\ s.buildings # 0
    THEN IF out = "raise"
         THEN [idle EXCEPT !.raised = {"classify"}, !.crashed = TRUE]
         ELSE IF out = "raise_plot"
         THEN [stored EXCEPT !.raised = {"classify"}, !.crashed = TRUE]
         ELSE stored
    ELSE [idle EXCEPT !.msgs = {Msg("classify", "warning")}]

\* lines 96-110
ClassifyBlock(s, k, btn, out) ==
    LET idle == [session |-> s, msgs |-> {}, raised |-> {}, crashed |-> FALSE]
        urban_types == add_cluster_col(s.merged, s.buildings, s.standardized, k)
        stored == [idle EXCEPT !.session = [s EXCEPT !.urban_types = urban_types]]
    IN
    IF btn # "classify" THEN idle
    ELSE IF s.merged # 0 /\ s.standardized # 0 /\ s.metrics_with_percentiles # 0
            /\ s.buildings # 0
    THEN IF out = "raise"
         THEN [idle EXCEPT !.raised = {"classify"}, !.crashed = TRUE]
         ELSE IF out = "raise_plot"
         THEN [stored EXCEPT !.raised = {"classify"}, !.crashed = TRUE]
         ELSE stored
    ELSE [idle EXCEPT !.msgs = {Msg("classify", "warning")}]

\* how the CSV half of the save block may end: convert_df raises (only when it
\* runs, on a cache miss), save_csv raises, or both return
CsvOutcomes == {"ok", "raise_convert", "raise_save"}
GdbOutcomes == {"ok", "raise"}

\* lines 16-19: st.cache_data leaves a parameter whose name starts with an
\* underscore out of the cache key, so every call after the first one that
\* returned is answered with the first one's bytes
convert_df(cache, urban_types) ==
    IF cache.present THEN cache ELSE urban_types

NoSave == [msgs |-> {}, cache |-> NoUrban, written |-> NoUrban, offered |-> NoUrban,
           rendered |-> {}, gdb_called |-> FALSE, raised |-> {}]

\* lines 123-138, a faulty variant: the layer is written whatever the button
SaveBlockNoButton(s, cache, btn, csvOut, gdbOut) ==
    IF s.urban_types.present
    THEN [NoSave EXCEPT !.cache = cache, !.written = s.urban_types,
                        !.gdb_called = TRUE, !.msgs = {Msg("save", "success")}]
    ELSE [NoSave EXCEPT !.cache = cache, !.msgs = {Msg("save", "warning")}]

\* lines 123-138
SaveBlock(s, cache, btn, csvOut, gdbOut) ==
    LET idle == [NoSave EXCEPT !.cache = cache]
        failed == [idle EXCEPT !.msgs = {Msg("save", "error")}, !.raised = {"save"}]
        csv == convert_df(cache, s.urban_types)
        offered == [idle EXCEPT !.cache = csv, !.offered = csv,
                                !.rendered = {"download"}]
    IN
    IF s.urban_types.present
    THEN IF ~cache.present /\ csvOut = "raise_convert"
         THEN failed
         ELSE IF csvOut = "raise_save"
         THEN [failed EXCEPT !.cache = csv]
         ELSE IF btn = "download"
         THEN IF gdbOut = "raise"
              THEN [offered EXCEPT !.msgs = {Msg("save", "error")},
                                   !.raised = {"save"}, !.gdb_called = TRUE]
              ELSE [offered EXCEPT !.msgs = {Msg("save", "success")},
                                   !.written = s.urban_types, !.gdb_called = TRUE]
         ELSE offered
    ELSE [idle EXCEPT !.msgs = {Msg("save", "warning")}]

\* what the calls of one run do: the recommender's, the classifier's, the CSV
\* export's and the geodatabase writer's outcome
Calm == [rec |-> "ok", recs |-> {min_clusters}, cls |-> "ok", csv |-> "ok",
         gdb |-> "ok"]

\* One run of the script (lines 22-138): an exception nobody catches ends the
\* run where it is raised, and the blocks below it do not execute.
Script(s, cache, zip, k, btn, oc) ==
    LET u == UploadBlock(s, zip)
        r == RecommendBlock(u.session, btn, oc.rec, oc.recs)
        c == IF r.crashed
             THEN [session |-> u.session, msgs |-> {}, raised |-> {}, crashed |-> FALSE]
             ELSE ClassifyBlock(u.session, k, btn, oc.cls)
        v == IF r.crashed \/ c.crashed
             THEN [NoSave EXCEPT !.cache = cache]
             ELSE SaveBlock(c.session, cache, btn, oc.csv, oc.gdb)
    IN [session |-> c.session,
        csv_cache |-> v.cache,
        gdb_written |-> v.written,
        msgs |-> Banner(s) \cup u.msgs \cup r.msgs \cup c.msgs \cup v.msgs,
        missing_report |-> u.missing,
        rec_list |-> r.rec_list,
        raised |-> u.raised \cup r.raised \cup c.raised \cup v.raised,
        crashed |-> r.crashed \/ c.crashed,
        gdb_called |-> v.gdb_called,
        csv_offered |-> v.offered,
        rendered |-> {"recommend"} \cup (IF r.crashed THEN {} ELSE {"classify"})
                     \cup v.rendered]

\* the state a run leaves
Ran(zip, k, btn, oc) ==
    \E n \in {Script(session, csv_cache, zip, k, btn, oc)} :
    /\ uploaded_zip' = zip
    /\ clusters_num' = k
    /\ button' = btn
    /\ session' = n.session
    /\ csv_cache' = n.csv_cache
    /\ gdb_written' = n.gdb_written
    /\ msgs' = n.msgs
    /\ missing_report' = n.missing_report
    /\ rec_list' = n.rec_list
    /\ raised' = n.raised
    /\ crashed' = n.crashed
    /\ gdb_called' = n.gdb_called
    /\ csv_offered' = n.csv_offered
    /\ rendered' = n.rendered
    /\ UNCHANGED <<cfgVars, flexVars, vifVars, csvVars, saveVars, outVars>>

\* The sessions a first visit of the page may find: a fresh one, or the four
\* tables left by the preprocessing page (lines 29-37), here data set 1
FirstSessions ==
    {EmptySession,
     [EmptySession EXCEPT !.merged = 1, !.metrics_with_percentiles = 1,
                          !.standardized = 1, !.buildings = 1]}

\* the first load of the page: nothing uploaded, nothing pressed
PageInit ==
    \E s \in FirstSessions :
        LET n == Script(s, NoUrban, NoZip, DefaultClusters, "none", Calm) IN
        /\ uploaded_zip = NoZip
        /\ clusters_num = DefaultClusters
        /\ button = "none"
        /\ session = n.session
        /\ csv_cache = n.csv_cache
        /\ gdb_written = n.gdb_written
        /\ msgs = n.msgs
        /\ missing_report = n.missing_report
        /\ rec_list = n.rec_list
        /\ raised = n.raised
        /\ crashed = n.crashed
        /\ gdb_called = n.gdb_called
        /\ csv_offered = n.csv_offered
        /\ rendered = n.rendered

\* the outcomes of the save block's calls that matter in a run: none when the
\* session holds no urban_types
SaveOutcomes(btn) ==
    IF session.urban_types.present \/ btn = "classify"
    THEN {[Calm EXCEPT !.csv = c, !.gdb = g] :
             c \in CsvOutcomes,
             g \in IF btn = "download" THEN GdbOutcomes ELSE {"ok"}}
    ELSE {Calm}

\* the user chooses a file in the uploader (line 42)
ChooseZip ==
    \E z \in Zips, oc \in SaveOutcomes("none") :
        Ran(z, clusters_num, "none", oc)

\* the user removes the file from the uploader
ClearZip ==
    /\ uploaded_zip # NoZip
    /\ \E oc \in SaveOutcomes("none") :
        Ran(NoZip, clusters_num, "none", oc)

\* the user picks another number of clusters (line 94)
SelectClusters ==
    /\ "classify" \in rendered
    /\ \E k \in ClusterChoices \ {clusters_num}, oc \in SaveOutcomes("none") :
        Ran(uploaded_zip, k, "none", oc)

\* any other rerun: a text input edited (lines 119-120), the page reloaded
Rerun ==
    \E oc \in SaveOutcomes("none") :
        Ran(uploaded_zip, clusters_num, "none", oc)

\* "Recommend number of clusters" pressed (line 82)
PressRecommend ==
    /\ "recommend" \in rendered
    /\ \/ \E oc \in SaveOutcomes("recommend"), recs \in Recommendable :
            Ran(uploaded_zip, clusters_num, "recommend", [oc EXCEPT !.recs = recs])
       \/ \E recs \in Recommendable :
            Ran(uploaded_zip, clusters_num, "recommend",
                [Calm EXCEPT !.rec = "raise_plot", !.recs = recs])
       \/ Ran(uploaded_zip, clusters_num, "recommend", [Calm EXCEPT !.rec = "raise"])

\* "Run classification" pressed (line 96)
PressClassify ==
    /\ "classify" \in rendered
    /\ \/ \E oc \in SaveOutcomes("classify") :
            Ran(uploaded_zip, clusters_num, "classify", oc)
       \/ \E o \in ClsOutcomes \ {"ok"} :
            Ran(uploaded_zip, clusters_num, "classify", [Calm EXCEPT !.cls = o])

\* "Download gdb" pressed (line 131)
PressDownload ==
    /\ "download" \in rendered
    /\ \E oc \in SaveOutcomes("download") :
        Ran(uploaded_zip, clusters_num, "download", oc)

PageNext ==
    \/ ChooseZip
    \/ ClearZip
    \/ SelectClusters
    \/ Rerun
    \/ PressRecommend
    \/ PressClassify
    \/ PressDownload


----------------------------------------------------------------------------
\* read_config (app/config_parser.py)

\* lines 17-19: the options read
ParamKeys == {"data_dir", "output_dir", "gdb_bld_path"}

\* An option's raw text, as the pieces the parser's interpolation tells apart:
\* plain text, a reference %(name)s, the escape %% and a lone %.
Lit(s) == [t |-> "lit", v |-> s]
Ref(k) == [t |-> "ref", v |-> k]
Esc == [t |-> "esc", v |-> "%"]
Lone == [t |-> "lone", v |-> "%"]

\* the raw texts the model tries
RawValues ==
    {<<Lit("/data")>>, <<Ref("output_dir"), Lit("/in")>>, <<Lit("100"), Lone>>,
     <<Lit("a"), Esc>>}

Sections == UNION {[K -> RawValues] : K \in SUBSET ParamKeys}

\* the files at the path given: none, one that is no INI file (no section
\* header, a duplicate option, ...), one with [DEFAULT] options only, one with
\* a [Paths] section too
ConfigFiles ==
    {[kind |-> k, has_paths |-> FALSE, paths |-> <<>>, defaults |-> <<>>] :
        k \in {"absent", "malformed"}}
    \cup {[kind |-> "ini", has_paths |-> FALSE, paths |-> <<>>, defaults |-> d] :
        d \in Sections}
    \cup {[kind |-> "ini", has_paths |-> TRUE, paths |-> s, defaults |-> d] :
        s \in Sections, d \in Sections}

\* configparser.MAX_INTERPOLATION_DEPTH, of the BasicInterpolation that
\* ConfigParser() uses when none is given (lines 9-13)
MAX_INTERPOLATION_DEPTH == 10

\* RawConfigParser._unify_values: the section's options over [DEFAULT]'s
UnifyValues(c) ==
    [k \in DOMAIN c.paths \cup DOMAIN c.defaults |->
        IF k \in DOMAIN c.paths THEN c.paths[k] ELSE c.defaults[k]]

HasPercent(raw) == \E i \in 1..Len(raw) : raw[i].t # "lit"

\* the text of an option as the file gives it
RECURSIVE RawText(_)
RawText(raw) ==
    IF raw = <<>> THEN ""
    ELSE LET p == Head(raw) IN
         (CASE p.t = "lit" -> p.v
            [] p.t = "ref" -> "%(" \o p.v \o ")s"
            [] p.t = "esc" -> "%%"
            [] p.t = "lone" -> "%") \o RawText(Tail(raw))

Failed == [ok |-> FALSE, text |-> ""]

\* BasicInterpolation._interpolate_some: the text of rest appended to accum
RECURSIVE InterpolateSome(_, _, _, _)
InterpolateSome(map, accum, rest, depth) ==
    IF ~accum.ok THEN accum
    ELSE IF depth > MAX_INTERPOLATION_DEPTH THEN Failed
    ELSE IF rest = <<>> THEN accum
    ELSE LET p == Head(rest)
             more(a) == InterpolateSome(map, a, Tail(rest), depth)
         IN
         CASE p.t = "lit" -> more([accum EXCEPT !.text = @ \o p.v])
           [] p.t = "esc" -> more([accum EXCEPT !.text = @ \o "%"])
           [] p.t = "lone" -> Failed
           [] p.t = "ref" ->
                IF p.v \notin DOMAIN map THEN Failed
                ELSE IF HasPercent(map[p.v])
                THEN more(InterpolateSome(map, accum, map[p.v], depth + 1))
                ELSE more([accum EXCEPT !.text = @ \o RawText(map[p.v])])

\* fallback='./'
Fallback == "./"

\* ConfigParser.get, a faulty variant: [DEFAULT] is not consulted
ConfigGetPathsOnly(c, option) ==
    IF c.kind # "ini" \/ ~c.has_paths THEN [ok |-> TRUE, text |-> Fallback]
    ELSE IF option \notin DOMAIN c.paths THEN [ok |-> TRUE, text |-> Fallback]
    ELSE InterpolateSome(UnifyValues(c), [ok |-> TRUE, text |-> ""], c.paths[option], 1)

\* lines 17-19: config.get('Paths', option, fallback='./').  The fallback
\* answers a missing section and a missing option; the option is looked up in
\* [Paths] over [DEFAULT], and its text is interpolated.
ConfigGet(c, option) ==
    IF c.kind # "ini" \/ ~c.has_paths THEN [ok |-> TRUE, text |-> Fallback]
    ELSE LET d == UnifyValues(c) IN
         IF option \notin DOMAIN d THEN [ok |-> TRUE, text |-> Fallback]
         ELSE InterpolateSome(d, [ok |-> TRUE, text |-> ""], d[option], 1)

\* read_config has not run / raised
NoParams == [returned |-> FALSE, raised |-> FALSE, params |-> <<>>]

\* lines 4-24: config.read raises on a file it cannot parse and skips a file
\* that is not there; an exception of a get is read_config's
read_config(c) ==
    IF c.kind = "malformed" THEN [NoParams EXCEPT !.raised = TRUE]
    ELSE IF \E k \in ParamKeys : ~ConfigGet(c, k).ok
    THEN [NoParams EXCEPT !.raised = TRUE]
    ELSE [returned |-> TRUE, raised |-> FALSE,
          params |-> [k \in ParamKeys |-> ConfigGet(c, k).text]]

ConfigInit ==
    /\ cfg_file \in ConfigFiles
    /\ params = NoParams

ConfigIdle ==
    /\ cfg_file = [kind |-> "absent", has_paths |-> FALSE, paths |-> <<>>, defaults |-> <<>>]
    /\ params = NoParams

ReadConfig ==
    /\ params = NoParams
    /\ params' = read_config(cfg_file)
    /\ UNCHANGED <<cfg_file, pageVars, flexVars, vifVars, csvVars, saveVars, outVars>>

----------------------------------------------------------------------------
\* The CSV export and reload (page lines 16-19, 59-62, 126-129)

\* bounds of the tables tried
MaxCols == 2
MaxRows == 2

ColumnNames == {"cluster", "area", "Unnamed: 0"}
CellValues == {"0", "1"}
IndexNames == {"", "id"}

\* the sequences of at most n distinct members of S
RECURSIVE DistinctSeqs(_, _)
DistinctSeqs(S, n) ==
    IF n = 0 THEN {<<>>}
    ELSE LET shorter == DistinctSeqs(S, n - 1) IN
         shorter \cup
         UNION {{Append(q, x) : x \in {y \in S : \A i \in 1..Len(q) : q[i] # y}} :
                    q \in shorter}

\* a DataFrame with a RangeIndex: the index's name ("": None), the column
\* labels, the rows' cells
DataFrames ==
    UNION {{[index_name |-> n, columns |-> c, rows |-> r] :
                n \in IndexNames,
                r \in UNION {[1..m -> [1..Len(c) -> CellValues]] : m \in 0..MaxRows}} :
            c \in DistinctSeqs(ColumnNames, MaxCols)}

\* line 19: _df.to_csv() keeps the defaults header=True, index=True: the
\* header's first field is the index's name (empty for None), and each record
\* starts with the row's index label
to_csv(d) ==
    <<(<<d.index_name>> \o d.columns)>>
    \o [i \in 1..Len(d.rows) |-> <<ToString(i - 1)>> \o d.rows[i]]

\* the label pd.read_csv gives the i-th header field: "Unnamed: <i-1>" to an
\* empty one, and ".<n>" appended to the n-th repeat of a label
ColumnLabel(header, i) ==
    LET base == IF header[i] = "" THEN "Unnamed: " \o ToString(i - 1) ELSE header[i]
        named(j) == IF header[j] = "" THEN "Unnamed: " \o ToString(j - 1) ELSE header[j]
        before == Cardinality({j \in 1..(i - 1) : named(j) = base})
    IN IF before = 0 THEN base ELSE base \o "." \o ToString(before)

\* lines 59-62: pd.read_csv(file): the first line is the header, no column is
\* taken as the index
read_csv(text) ==
    [index_name |-> "",
     columns |-> [i \in 1..Len(text[1]) |-> ColumnLabel(text[1], i)],
     rows |-> [i \in 1..(Len(text) - 1) |-> text[i + 1]]]

NoText == <<>>
NoFrame == [index_name |-> "", columns |-> <<>>, rows |-> <<>>]

CsvInit ==
    /\ df \in DataFrames
    /\ csv_text = NoText
    /\ reloaded = NoFrame

CsvIdle ==
    /\ df = NoFrame
    /\ csv_text = NoText
    /\ reloaded = NoFrame

\* lines 128-129: the bytes handed to save_csv
Export ==
    /\ csv_text = NoText
    /\ csv_text' = to_csv(df)
    /\ UNCHANGED <<df, reloaded, pageVars, cfgVars, flexVars, vifVars, saveVars, outVars>>

\* lines 59-62: the exported file read back
Reload ==
    /\ csv_text # NoText
    /\ reloaded = NoFrame
    /\ reloaded' = read_csv(csv_text)
    /\ UNCHANGED <<df, csv_text, pageVars, cfgVars, flexVars, vifVars, saveVars, outVars>>


----------------------------------------------------------------------------
\* The flexibility table (app/plot_funcs.py)

\* bounds of the results tried: clusters, metrics per cluster, score values
FlexClusters == 2
MaxMetrics == 6
MaxScore == 1

\* nlargest(5), nsmallest(5)
TopN == 5

\* results: per cluster, result["flexibility_score"]: a Series of one score per
\* metric; the metrics are named by their position, and every cluster has the
\* same metrics
FlexResults ==
    UNION {[1..c -> [1..n -> 0..MaxScore]] : c \in 1..FlexClusters, n \in 0..MaxMetrics}

Min(a, b) == IF a < b THEN a ELSE b

\* a mean as the sum and the count of what is averaged
Mean(sum, count) == [num |-> sum, den |-> count]
MeanGreater(a, b) == a.num * b.den > b.num * a.den
MeanLess(a, b) == a.num * b.den < b.num * a.den

\* The first n positions of s by value, the largest first when largest and
\* the smallest first otherwise, equal values in the order of their positions
\* (keep="first")
SelectN(s, n, largest) ==
    LET before(a, b) == IF largest THEN MeanGreater(a, b) ELSE MeanLess(a, b)
        rank(i) == Cardinality({j \in 1..Len(s) :
                        before(s[j], s[i]) \/ (s[j] = s[i] /\ j < i)})
    IN [r \in 1..Min(n, Len(s)) |-> CHOOSE i \in 1..Len(s) : rank(i) = r - 1]

\* a Series of plain scores
Scores(s) == [i \in 1..Len(s) |-> Mean(s[i], 1)]

\* Series.nlargest(n)
nlargest(s, n) == SelectN(Scores(s), n, TRUE)

\* Series.nsmallest(n)
nsmallest(s, n) == SelectN(Scores(s), n, FALSE)

\* lines 48-74 and 366-392: one row per cluster, the metrics of its
\* nlargest(5) and of its nsmallest(5)
plot_flexibility_scores_table(results) ==
    [c \in 1..Len(results) |->
        [top |-> nlargest(results[c], TopN),
         bottom |-> nsmallest(results[c], TopN)]]

RECURSIVE SumTo(_, _)
SumTo(f, n) == IF n = 0 THEN 0 ELSE f[n] + SumTo(f, n - 1)

\* lines 184-200: the scores of all clusters concatenated, averaged per metric,
\* and the nlargest(5) and nsmallest(5) of the averages
plot_overall_flexibility(results) ==
    LET n == Len(results[1])
        overall == [m \in 1..n |->
                      Mean(SumTo([c \in 1..Len(results) |-> results[c][m]], Len(results)),
                           Len(results))]
    IN [top |-> SelectN(overall, TopN, TRUE),
        bottom |-> SelectN(overall, TopN, FALSE)]

NoTable == <<>>
NoOverall == [built |-> FALSE, top |-> <<>>, bottom |-> <<>>]

FlexInit ==
    /\ flex_results \in FlexResults
    /\ flex_table = NoTable
    /\ flex_overall = NoOverall

FlexIdle ==
    /\ flex_results = <<>>
    /\ flex_table = NoTable
    /\ flex_overall = NoOverall

\* plot_flexibility_scores_table / streamlit_plot_flexibility_scores_table
BuildFlexTable ==
    /\ flex_results # <<>>
    /\ flex_table = NoTable
    /\ flex_table' = plot_flexibility_scores_table(flex_results)
    /\ UNCHANGED <<flex_results, flex_overall, pageVars, cfgVars, vifVars, csvVars, saveVars, outVars>>

\* plot_overall_flexibility
PlotOverallFlex ==
    /\ flex_results # <<>>
    /\ ~flex_overall.built
    /\ flex_overall' = [built |-> TRUE] @@ plot_overall_flexibility(flex_results)
    /\ UNCHANGED <<flex_results, flex_table, pageVars, cfgVars, vifVars, csvVars, saveVars, outVars>>

----------------------------------------------------------------------------
\* The VIF aggregation (app/plot_funcs.py)

\* bounds of the results tried: clusters and VIF values
VifClusters == 2
MaxVif == 2

Features == {"area", "height", "width"}

\* result["vif"] of one cluster: the VIF of each feature it lists
VifTables == UNION {[F -> 1..MaxVif] : F \in SUBSET Features}

VifResults == UNION {[1..c -> VifTables] : c \in 0..VifClusters}

NaN == [nan |-> TRUE, v |-> 0]
Num(x) == [nan |-> FALSE, v |-> x]

\* lines 239-243 and 467-471: pd.concat(..., axis=1) of the clusters' tables
\* indexed by feature: a row per feature of any table, a column per cluster,
\* NaN where the cluster's table lacks the feature
RECURSIVE VifFrame(_, _)
VifFrame(results, n) ==
    IF n = 0 THEN <<>>
    ELSE LET vif_df == VifFrame(results, n - 1)
             vif_cluster == results[n]
         IN [f \in DOMAIN vif_df \cup DOMAIN vif_cluster |->
                Append(IF f \in DOMAIN vif_df THEN vif_df[f]
                       ELSE [c \in 1..(n - 1) |-> NaN],
                       IF f \in DOMAIN vif_cluster THEN Num(vif_cluster[f]) ELSE NaN)]

\* DataFrame.mean(axis=1), a faulty variant: a missing cell counts as 0
RowMeanZeroFilled(row) ==
    Mean(SumTo([c \in 1..Len(row) |-> row[c].v], Len(row)), Len(row))

\* DataFrame.mean(axis=1): skipna=True, the mean of the row's cells that are
\* not NaN
RowMean(row) ==
    Mean(SumTo([c \in 1..Len(row) |-> IF row[c].nan THEN 0 ELSE row[c].v], Len(row)),
         Cardinality({c \in 1..Len(row) : ~row[c].nan}))

\* lines 239-246 and 467-474
plot_overall_vif(results) ==
    LET vif_df == VifFrame(results, Len(results)) IN
    [f \in DOMAIN vif_df |-> RowMean(vif_df[f])]

NoVifMean == [built |-> FALSE, mean |-> <<>>]

VifInit ==
    /\ vif_results \in VifResults
    /\ vif_mean = NoVifMean

VifIdle ==
    /\ vif_results = <<>>
    /\ vif_mean = NoVifMean

\* plot_overall_vif / streamlit_plot_overall_vif
PlotOverallVif ==
    /\ ~vif_mean.built
    /\ vif_mean' = [built |-> TRUE, mean |-> plot_overall_vif(vif_results)]
    /\ UNCHANGED <<vif_results, pageVars, cfgVars, flexVars, csvVars, saveVars, outVars>>

----------------------------------------------------------------------------
\* save_flexibility_scores_to_csv (app/plot_funcs.py)

\* bounds of the results tried: clusters and metrics per cluster
SaveClusters == 2
MaxSaveMetrics == 11

\* the Series tried for a cluster of n metrics (named by their position):
\* rising scores, falling scores, equal scores, alternating scores
ScoreSeries(n) ==
    {[i \in 1..n |-> i], [i \in 1..n |-> n + 1 - i], [i \in 1..n |-> 0],
     [i \in 1..n |-> i % 2]}

\* results: per cluster, result["flexibility_score"]
SaveResults ==
    UNION {[1..c -> ScoreSeries(n)] : c \in 0..SaveClusters, n \in 0..MaxSaveMetrics}

\* line 151, Series.sort_values(ascending=False): the positions by decreasing
\* score.  The default sort is not stable, so the order of equal scores is
\* open: the model tries the order of the positions and its reverse.
sort_values(s, first) ==
    LET rank(i) == Cardinality({j \in 1..Len(s) :
                        \/ s[j] > s[i]
                        \/ s[j] = s[i] /\ IF first THEN j < i ELSE j > i})
    IN [r \in 1..Len(s) |-> CHOOSE i \in 1..Len(s) : rank(i) = r - 1]

\* lines 144-155: for the clusters 1..n in turn, a row [cluster, metric, score]
\* for every entry of the cluster's sorted scores
RECURSIVE data_to_save(_, _, _)
data_to_save(results, n, first) ==
    IF n = 0 THEN <<>>
    ELSE LET sorted_scores == sort_values(results[n], first) IN
         data_to_save(results, n - 1, first)
         \o [r \in 1..Len(sorted_scores) |->
                [Cluster |-> n, Metric |-> sorted_scores[r],
                 Score |-> results[n][sorted_scores[r]]]]

\* lines 135-163: the rows of the file written (to_csv(index=False))
save_flexibility_scores_to_csv(results, first) ==
    [written |-> TRUE, rows |-> data_to_save(results, Len(results), first)]

NoFile == [written |-> FALSE, rows |-> <<>>]

SaveInit ==
    /\ save_results \in SaveResults
    /\ flexibility_df = NoFile

SaveIdle ==
    /\ save_results = <<>>
    /\ flexibility_df = NoFile

\* save_flexibility_scores_to_csv(results)
SaveFlexibilityScores ==
    /\ ~flexibility_df.written
    /\ \E first \in BOOLEAN :
          flexibility_df' = save_flexibility_scores_to_csv(save_results, first)
    /\ UNCHANGED <<save_results, pageVars, cfgVars, flexVars, vifVars, csvVars, outVars>>

----------------------------------------------------------------------------
\* plot_outliers and streamlit_plot_outliers (app/plot_funcs.py)

\* bounds of the results tried: clusters and outlier rows per cluster
OutClusters == 2
MaxOutliers == 2

\* a table's "cluster" column: absent, or a cell per row
NoColumn == [has |-> FALSE, cells |-> <<>>]
Column(cells) == [has |-> TRUE, cells |-> cells]

\* results[cluster]["outliers"]: the cluster's outlier rows (their number) and
\* the table's "cluster" column; the other columns are not told apart
OutlierFrames ==
    UNION {{[rows |-> n, cluster |-> col] :
               col \in {NoColumn} \cup {Column(c) : c \in [1..n -> 1..OutClusters]}} :
           n \in 0..MaxOutliers}

\* results: the mapping from the clusters 1..c to their outliers
OutlierResults == UNION {[1..c -> OutlierFrames] : c \in 0..OutClusters}

\* lines 25-32: the tables are read and drawn
plot_outliers(results) == results

\* line 428, cluster_outliers["cluster"] = cluster, on the object that
\* results[cluster]["outliers"] names: the column is added or overwritten
SetClusterColumn(cluster_outliers, cluster) ==
    [cluster_outliers EXCEPT
        !.cluster = Column([i \in 1..cluster_outliers.rows |-> cluster])]

\* lines 425-429: every cluster's table gets the column
streamlit_plot_outliers(results) ==
    [cluster \in DOMAIN results |-> SetClusterColumn(results[cluster], cluster)]

OutInit ==
    /\ out_results \in OutlierResults
    /\ plotted = {}

OutIdle ==
    /\ out_results = <<>>
    /\ plotted = {}

\* plot_outliers(gdf, results, classification_column)
PlotOutliers ==
    /\ out_results' = plot_outliers(out_results)
    /\ plotted' = plotted \cup {"plot_outliers"}
    /\ UNCHANGED <<pageVars, cfgVars, flexVars, vifVars, csvVars, saveVars>>

\* streamlit_plot_outliers(gdf, results)
StreamlitPlotOutliers ==
    /\ out_results' = streamlit_plot_outliers(out_results)
    /\ plotted' = plotted \cup {"streamlit_plot_outliers"}
    /\ UNCHANGED <<pageVars, cfgVars, flexVars, vifVars, csvVars, saveVars>>

----------------------------------------------------------------------------
\* The specifications

PageIdle ==
    LET n == Script(EmptySession, NoUrban, NoZip, DefaultClusters, "none", Calm) IN
    /\ uploaded_zip = NoZip
    /\ clusters_num = DefaultClusters
    /\ button = "none"
    /\ session = n.session
    /\ csv_cache = n.csv_cache
    /\ gdb_written = n.gdb_written
    /\ msgs = n.msgs
    /\ missing_report = n.missing_report
    /\ rec_list = n.rec_list
    /\ raised = n.raised
    /\ crashed = n.crashed
    /\ gdb_called = n.gdb_called
    /\ csv_offered = n.csv_offered
    /\ rendered = n.rendered

\* the classification page
Init == PageInit /\ ConfigIdle /\ FlexIdle /\ VifIdle /\ CsvIdle /\ SaveIdle /\ OutIdle
Next == PageNext
Spec == Init /\ [][Next]_vars

\* read_config on every file of ConfigFiles
InitConfig == PageIdle /\ ConfigInit /\ FlexIdle /\ VifIdle /\ CsvIdle /\ SaveIdle /\ OutIdle
NextConfig == ReadConfig
SpecConfig == InitConfig /\ [][NextConfig]_vars

\* the flexibility table of every result of FlexResults
InitFlex == PageIdle /\ ConfigIdle /\ FlexInit /\ VifIdle /\ CsvIdle /\ SaveIdle /\ OutIdle
NextFlex == BuildFlexTable \/ PlotOverallFlex
SpecFlex == InitFlex /\ [][NextFlex]_vars

\* the VIF aggregation of every result of VifResults
InitVif == PageIdle /\ ConfigIdle /\ FlexIdle /\ VifInit /\ CsvIdle /\ SaveIdle /\ OutIdle
NextVif == PlotOverallVif
SpecVif == InitVif /\ [][NextVif]_vars

\* the export and reload of every table of DataFrames
InitCsv == PageIdle /\ ConfigIdle /\ FlexIdle /\ VifIdle /\ CsvInit /\ SaveIdle /\ OutIdle
NextCsv == Export \/ Reload
SpecCsv == InitCsv /\ [][NextCsv]_vars

\* save_flexibility_scores_to_csv on every result of SaveResults
InitSave == PageIdle /\ ConfigIdle /\ FlexIdle /\ VifIdle /\ CsvIdle /\ SaveInit /\ OutIdle
NextSave == SaveFlexibilityScores
SpecSave == InitSave /\ [][NextSave]_vars

\* the outlier plots on every result of OutlierResults
InitOutliers == PageIdle /\ ConfigIdle /\ FlexIdle /\ VifIdle /\ CsvIdle /\ SaveIdle /\ OutInit
NextOutliers == PlotOutliers \/ StreamlitPlotOutliers
SpecOutliers == InitOutliers /\ [][NextOutliers]_vars


----------------------------------------------------------------------------
\* The claims

DataKeys(s) == <<s.merged, s.metrics_with_percentiles, s.standardized, s.buildings>>

AllLoaded(s) ==
    s.merged # 0 /\ s.metrics_with_percentiles # 0 /\ s.standardized # 0
    /\ s.buildings # 0

\* C1: in every run whose uploaded file is a ZIP archive lacking exactly one of
\* the four expected CSVs, the upload block's "Missing files" error names that
\* file and no other, no success is reported, and the four table keys of the
\* session are as the run found them.
C1_MissingOneReported ==
    [][\A f \in Files :
          (uploaded_zip'.valid /\ Files \ uploaded_zip'.names = {f})
          => /\ missing_report' = <<f>>
             /\ Msg("upload", "missing") \in msgs'
             /\ Msg("upload", "success") \notin msgs'
             /\ DataKeys(session') = DataKeys(session)]_vars

\* C1's case: a run on an archive lacking one file, in a session that already
\* holds the tables of an earlier upload
C1_Witness ==
    /\ uploaded_zip.valid
    /\ Cardinality(Files \ uploaded_zip.names) = 1
    /\ Len(missing_report) = 1
    /\ AllLoaded(session)

\* C2, as claimed: what read_config returns has, for each of the three keys,
\* the [Paths] section's value when the section gives one and './' when the
\* key, the section or the file is absent.  (Read in the claim's favour: only
\* calls that return are judged, and the value given is the interpolated one.)
C2_PathsValueOrCurrentDir ==
    params.returned =>
        \A k \in ParamKeys :
            IF cfg_file.kind = "ini" /\ cfg_file.has_paths /\ k \in DOMAIN cfg_file.paths
            THEN params.params[k] =
                    InterpolateSome(UnifyValues(cfg_file), [ok |-> TRUE, text |-> ""],
                                    cfg_file.paths[k], 1).text
            ELSE params.params[k] = "./"

\* the entry configparser resolves for a key of [Paths]: [Paths]'s own, else
\* [DEFAULT]'s
Resolvable(c, k) ==
    c.kind = "ini" /\ c.has_paths /\ k \in DOMAIN c.paths \cup DOMAIN c.defaults

Resolved(c, k) == IF k \in DOMAIN c.paths THEN c.paths[k] ELSE c.defaults[k]

\* C2, amended: read_config returns whenever the file is absent or parses and
\* none of the three resolved entries holds a '%'; whenever it returns, it
\* returns a mapping with exactly the three keys; a key's value is the entry
\* of [Paths], else (with a [Paths] section) the entry of [DEFAULT], verbatim
\* when the entry holds no '%', and './' when the file or the [Paths] section
\* is absent or neither section has the key.
C2_ResolvedValueOrCurrentDir ==
    /\ (params # NoParams /\ cfg_file.kind # "malformed"
        /\ \A k \in ParamKeys :
              Resolvable(cfg_file, k) => ~HasPercent(Resolved(cfg_file, k)))
       => params.returned
    /\ params.returned =>
        /\ DOMAIN params.params = ParamKeys
        /\ \A k \in ParamKeys :
              IF Resolvable(cfg_file, k)
              THEN ~HasPercent(Resolved(cfg_file, k))
                   => params.params[k] = RawText(Resolved(cfg_file, k))
              ELSE params.params[k] = "./"

\* C2's case: read_config returned for a file whose [Paths] section lacks a
\* key that [DEFAULT] gives, and gives another key itself
C2_Witness ==
    /\ params.returned
    /\ cfg_file.has_paths
    /\ \E k \in ParamKeys :
          /\ k \notin DOMAIN cfg_file.paths
          /\ k \in DOMAIN cfg_file.defaults
          /\ params.params[k] = RawText(cfg_file.defaults[k])
    /\ \E k \in ParamKeys :
          /\ k \in DOMAIN cfg_file.paths
          /\ params.params[k] = RawText(cfg_file.paths[k])
    /\ \E k \in ParamKeys : params.params[k] = "./"

Range(s) == {s[i] : i \in 1..Len(s)}

Disjoint10(row, n) ==
    /\ Range(row.top) \cap Range(row.bottom) = {}
    /\ Len(row.top) + Len(row.bottom) <= 2 * TopN
    /\ n < 2 * TopN => Len(row.top) + Len(row.bottom) < 2 * TopN

\* C3, as claimed: for every cluster and every number of metrics, the top-5
\* and the bottom-5 metrics of the flexibility table (and of the overall
\* flexibility plot) are disjoint and hold at most 10 entries together, fewer
\* when there are fewer than 10 metrics.
C3_TopBottomDisjoint ==
    /\ \A c \in 1..Len(flex_table) : Disjoint10(flex_table[c], Len(flex_results[c]))
    /\ flex_overall.built => Disjoint10(flex_overall, Len(flex_results[1]))

\* the clusters whose VIF table lists feature f
Listing(f) == {c \in 1..Len(vif_results) : f \in DOMAIN vif_results[c]}

RECURSIVE SumOver(_, _)
SumOver(S, f) ==
    IF S = {} THEN 0
    ELSE LET c == CHOOSE x \in S : TRUE IN vif_results[c][f] + SumOver(S \ {c}, f)

\* C4: the overall VIF has a value for exactly the features some cluster
\* lists, and a feature's value is the arithmetic mean of its VIF over the
\* clusters that list it: the sum of those values divided by their number.
C4_OverallVifIsMean ==
    vif_mean.built =>
        /\ DOMAIN vif_mean.mean = {f \in Features : Listing(f) # {}}
        /\ \A f \in DOMAIN vif_mean.mean :
              /\ vif_mean.mean[f].den > 0
              /\ vif_mean.mean[f].num * Cardinality(Listing(f))
                     = SumOver(Listing(f), f) * vif_mean.mean[f].den

\* C4's case: the mean of a feature that one cluster lists and another lacks,
\* beside a feature that two clusters list with different values
C4_Witness ==
    /\ vif_mean.built
    /\ \E f \in Features :
          /\ Listing(f) # {}
          /\ Listing(f) # 1..Len(vif_results)
    /\ \E f \in Features, c, d \in 1..Len(vif_results) :
          /\ {c, d} \subseteq Listing(f)
          /\ vif_results[c][f] # vif_results[d][f]

\* C5, as claimed: the table read back from the exported CSV has the rows'
\* number and the column set of the table exported.
C5_RoundTrip ==
    reloaded # NoFrame =>
        /\ Len(reloaded.rows) = Len(df.rows)
        /\ Range(reloaded.columns) = Range(df.columns)

C8_AbsentDataWarns ==
    /\ (button = "recommend" /\ session.standardized = 0)
       => rec_list = {} /\ ~crashed /\ Msg("recommend", "warning") \in msgs
    /\ (button = "classify" /\ ~AllLoaded(session))
       => /\ ~crashed
          /\ "classify" \notin raised
          /\ Msg("classify", "warning") \in msgs
    /\ (~session.urban_types.present /\ ~crashed)
       => /\ ~gdb_called
          /\ ~csv_offered.present
          /\ Msg("save", "warning") \in msgs

\* C9, as claimed: an exception raised in a block of the page is caught there
\* and shown as that block's error message, and the run does not end with it.
C9_ExceptionsCaught ==
    /\ ~crashed
    /\ \A b \in raised : Msg(b, "error") \in msgs

\* C10: a run calls dataframe_to_gdb only with 'urban_types' in the session
\* and "Download gdb" pressed in that run; the layer is written only by such a
\* call; and the success message is shown only when the call returned, having
\* written the session's urban_types.
C10_GdbOnlyOnExplicitExport ==
    /\ gdb_called => session.urban_types.present /\ button = "download"
    /\ gdb_written.present => gdb_called
    /\ Msg("save", "success") \in msgs
       => /\ gdb_called
          /\ "save" \notin raised
          /\ gdb_written = session.urban_types

\* C10's cases: a run that wrote the layer and reported it
C10_Witness ==
    /\ button = "download"
    /\ gdb_written.present
    /\ Msg("save", "success") \in msgs

\* the rows of the file written for cluster c
ClusterRows(c) ==
    LET of_c(r) == r.Cluster = c IN SelectSeq(flexibility_df.rows, of_c)

\* C11, as claimed: for every cluster, the file holds the cluster's top-5 and
\* bottom-5 metrics with their scores and no other row, so at most 10 rows, and
\* the cluster's rows are in decreasing order of score.
C11_TopFiveBottomFiveWritten ==
    flexibility_df.written =>
        \A c \in 1..Len(save_results) :
            LET rows == ClusterRows(c) IN
            /\ Len(rows) <= 2 * TopN
            /\ {rows[i].Metric : i \in 1..Len(rows)}
                   = Range(nlargest(save_results[c], TopN))
                     \cup Range(nsmallest(save_results[c], TopN))
            /\ \A i \in 1..Len(rows) : rows[i].Score = save_results[c][rows[i].Metric]
            /\ \A i \in 1..(Len(rows) - 1) : rows[i].Score >= rows[i + 1].Score

\* C13, as claimed: no call of a plotting function changes the results mapping
\* or a table in it.
C13_BundleReadOnly ==
    [][out_results' = out_results]_vars

\* the labels a classification of the session's tables with k clusters gives
Classified(s, k) == add_cluster_col(s.merged, s.buildings, s.standardized, k)

\* C12: 'urban_types' is absent until a classification stores it; a run
\* changes it only when "Run classification" is pressed with the four tables
\* loaded, and then to the labels computed in that run from the session's
\* tables and the selected count; every such run whose calls return overwrites
\* it; a run blocked by missing data, and a run of any other action, leaves it
\* as it was.
C12_UrbanTypesIsLastClassification ==
    /\ ~session.urban_types.present
    /\ [][/\ session'.urban_types # session.urban_types
             => /\ button' = "classify"
                /\ AllLoaded(session')
                /\ session'.urban_types = Classified(session', clusters_num')
          /\ (button' = "classify" /\ AllLoaded(session') /\ "classify" \notin raised')
             => session'.urban_types = Classified(session', clusters_num')
          /\ (button' = "classify" /\ ~AllLoaded(session'))
             => /\ session'.urban_types = session.urban_types
                /\ Msg("classify", "warning") \in msgs'
          /\ button' # "classify" => session'.urban_types = session.urban_types]_vars

\* C12's case: a second classification, with another count and on another
\* data set, has overwritten the labels of the first (which st.cache_data
\* still holds)
C12_Witness ==
    /\ session.urban_types.present
    /\ csv_cache.present
    /\ session.urban_types.k # csv_cache.k
    /\ session.urban_types.merged # csv_cache.merged
    /\ session.urban_types = Classified(session, clusters_num)

\* the four table keys all hold data set i (0: all absent)
AllOf(s, i) == DataKeys(s) = <<i, i, i, i>>

\* C14: the four table keys always hold the tables of one data set or are all
\* absent; a run whose uploaded file is a complete archive that parses leaves
\* all four holding that archive's tables; a run whose uploaded file is no
\* archive, lacks a member or has a member that does not parse leaves all
\* four as they were.
C14_UploadAllOrNothing ==
    /\ [](\E i \in 0..NumZips : AllOf(session, i))
    /\ [][uploaded_zip' # NoZip
          => IF /\ uploaded_zip'.valid
                /\ uploaded_zip'.names = Files
                /\ uploaded_zip'.unreadable = "none"
             THEN AllOf(session', uploaded_zip'.id)
             ELSE DataKeys(session') = DataKeys(session)]_vars

\* C14's case: an archive whose last member does not parse was tried in a
\* session holding the tables of another data set, which are still there
C14_Witness ==
    /\ uploaded_zip.unreadable = expected_files[Len(expected_files)]
    /\ Msg("upload", "error") \in msgs
    /\ "upload" \in raised
    /\ AllOf(session, NumZips)
    /\ uploaded_zip.id # NumZips

\* C15, as claimed: a run that loads an archive without a classification
\* leaves 'urban_types' as it was, and the export works from it: the layer
\* "Download gdb" writes and the CSV the export section offers are the
\* session's 'urban_types', the labels of the most recent classification,
\* whatever tables have been uploaded since.
C15_ExportKeepsLastLabels ==
    /\ [][(Msg("upload", "success") \in msgs' /\ button' # "classify")
          => session'.urban_types = session.urban_types]_vars
    /\ [](gdb_written.present => gdb_written = session.urban_types)
    /\ [](csv_offered.present => csv_offered = session.urban_types)

====
